---- MODULE Spec2Model ----
(***************************************************************************)
(* Model of react-stickup's Sticky component (src/unnamed/part_001, the    *)
(* second Sticky class of the file, lines 340-759) and of its group        *)
(* provider (src/lib/StickyProvider.tsx).                                  *)
(*                                                                         *)
(* Numbers.  Every length (rect coordinates, scroll offsets, offsets) is   *)
(* an integer count of quarter pixels, so 4 is 1px, 1 is 0.25px and 2 is   *)
(* 0.5px.  Math.round rounds to the nearest whole pixel, halves upwards.   *)
(*                                                                         *)
(* Optional values.  A rect that getBoundingClientRect could not deliver   *)
(* (the ref's current is null) is the empty set; a measured rect r is {r}. *)
(* A style field that is undefined is <<>>; a defined one is <<value>>.    *)
(***************************************************************************)
EXTENDS Integers, FiniteSets, Sequences, TLC

VARIABLES
    stickyOffset,           \* StickyScrollUpProvider.stickyOffset, shared by reference
    props,                  \* the props of the Sticky instance
    platform,               \* feature detection results and NODE_ENV
    state,                  \* Sticky.state
    pendingState,           \* the object of a setState call React has not applied yet
    nativeStickyThrewOnce,  \* Sticky.nativeStickyThrewOnce
    warnings,               \* console.warn calls of the current instance
    snapshot,               \* the ILayoutSnapshot ObserveViewport holds for the handler
    layout,                 \* ILayoutSnapshot of the last update cycle
    viewport,               \* {scroll, dimensions} of the last update cycle
    threw,                  \* the last update cycle raised a TypeError
    op,                     \* the last operation that ran
    lastUpdate,             \* the arguments of the most recent updateStickyOffset call
    observed,               \* what the instance read from the shared offset since then
    siblingsObserved        \* the same for the other Sticky regions of the provider

vars == <<stickyOffset, props, platform, state, pendingState, nativeStickyThrewOnce,
          warnings, snapshot, layout, viewport, threw, op, lastUpdate, observed,
          siblingsObserved>>

---------------------------------------------------------------------------
(* Numbers in quarter pixels *)

Px(n) == 4 * n

\* Math.round: floor(x + 0.5)
Round(v) == ((v + 2) \div 4) * 4

Min(a, b) == IF a <= b THEN a ELSE b

Max(a, b) == IF a >= b THEN a ELSE b

Abs(a) == IF a < 0 THEN -a ELSE a

---------------------------------------------------------------------------
(* Optional rects *)

Absent == {}

Measured(r) == {r}

Get(x) == CHOOSE r \in x : TRUE

\* a DOMRect: bottom = top + height
Rect(t, h) == [top |-> t, bottom |-> t + h, height |-> h]

\* rect?.top || 0
TopOr0(x) == IF x = Absent THEN 0 ELSE Get(x).top

\* rect?.bottom || 0
BottomOr0(x) == IF x = Absent THEN 0 ELSE Get(x).bottom

\* rect?.height || 0
HeightOr0(x) == IF x = Absent THEN 0 ELSE Get(x).height

---------------------------------------------------------------------------
(* Styles *)

Undefined == <<>>

Def(v) == <<v>>

EmptyStyles ==
    [position |-> Undefined, top |-> Undefined,
     willChange |-> Undefined, transform |-> Undefined]

PositionStyles(position, top) ==
    [position |-> Def(position), top |-> Def(top),
     willChange |-> Undefined, transform |-> Undefined]

\* the value standing for "the call raised a TypeError" (a property read on undefined)
TypeError == [position |-> Def("TypeError"), top |-> Undefined,
              willChange |-> Undefined, transform |-> Undefined]

\* utils.shallowEqualPositionStyles: equal on position, top and the acceleration hint
shallowEqualPositionStyles(a, b) ==
    /\ a.position = b.position
    /\ a.top = b.top
    /\ a.willChange = b.willChange
    /\ a.transform = b.transform

---------------------------------------------------------------------------
(* StickyScrollUpProvider *)

InitialStickyOffset == [top |-> 0, height |-> 0]

\* updateStickyOffset without the Math.min clamp
updateStickyOffsetTopUnclamped(offset, top, height) ==
    [top |-> top, height |-> height]

updateStickyOffset(offset, top, height) ==
    [top |-> Min(top, height), height |-> height]

\* a consumer handed the default value of StickyGroupContext
contextStickyOffsetDefault(offset) == InitialStickyOffset

\* props.stickyOffset of a connected component: the provider's context value
\* holds the provider's stickyOffset object itself, so a read through the prop
\* finds what the provider holds at the time of the read
contextStickyOffset(offset) == offset

---------------------------------------------------------------------------
(* Sticky: getters and predicates *)

InitialState ==
    [isSticky |-> FALSE, isDockedToBottom |-> FALSE, isNearToViewport |-> FALSE,
     appliedOverflowScroll |-> "end", styles |-> EmptyStyles,
     useNativeSticky |-> FALSE]

offsetTop(p, offset) == offset.top + p.defaultOffsetTop

\* what an update cycle of a region with props p found: the shared offset it
\* read through its props and the offsetTop it computed from it
Observation(p, offset) ==
    [stickyOffset |-> offset, offsetTop |-> offsetTop(p, offset)]

hasContainer(p) == p.container

padding == Px(700)

isNearToViewport(rect) ==
    TopOr0(rect) - padding < 0 /\ BottomOr0(rect) + padding > 0

\* the priority render hands to ObserveViewport
priority(st) == IF st.isNearToViewport THEN "highest" ELSE "low"

\* calcHeightDifference on the unrounded height of the sticky rect
calcHeightDifferenceUnrounded(rectSticky, dimensions) ==
    Max(0, HeightOr0(rectSticky) - dimensions.height)

calcHeightDifference(rectSticky, dimensions) ==
    Max(0, Round(HeightOr0(rectSticky)) - dimensions.height)

\* getOverflowScrollType without the height difference test
getOverflowScrollTypeIgnoringHeight(p, rectSticky, dimensions) ==
    IF p.overflowScroll = "flow" THEN "flow" ELSE "end"

getOverflowScrollType(p, rectSticky, dimensions) ==
    IF p.overflowScroll = "flow" /\ calcHeightDifference(rectSticky, dimensions) > 0
    THEN "flow"
    ELSE "end"

\* the height isSticky and isDockedToBottom fit against the container's bottom
effectiveHeight(p, height, dimensions) ==
    IF p.overflowScroll = "flow" THEN Min(height, dimensions.height) ELSE height

\* isSticky taking the container-less return for every configuration
isStickyNoBottomCheck(p, offset, rect, containerRect, dimensions) ==
    Round(TopOr0(containerRect)) <= offsetTop(p, offset)

\* isSticky without the early return on the container's top
isStickyNoTopCheck(p, offset, rect, containerRect, dimensions) ==
    IF ~hasContainer(p)
    THEN Round(TopOr0(containerRect)) <= offsetTop(p, offset)
    ELSE IF Round(BottomOr0(containerRect)) - offsetTop(p, offset)
            < effectiveHeight(p, HeightOr0(rect), dimensions)
    THEN FALSE
    ELSE TRUE

isSticky(p, offset, rect, containerRect, dimensions) ==
    IF ~hasContainer(p)
    THEN Round(TopOr0(containerRect)) <= offsetTop(p, offset)
    ELSE IF Round(TopOr0(containerRect)) > offsetTop(p, offset)
    THEN FALSE
    ELSE IF Round(BottomOr0(containerRect)) - offsetTop(p, offset)
            < effectiveHeight(p, HeightOr0(rect), dimensions)
    THEN FALSE
    ELSE TRUE

\* isDockedToBottom without the test of the room left in the container
isDockedToBottomNoRoomCheck(p, offset, rect, containerRect, dimensions) ==
    IF rect = Absent \/ containerRect = Absent
    THEN FALSE
    ELSE IF ~hasContainer(p)
    THEN FALSE
    ELSE IF Get(rect).height > Get(containerRect).height
    THEN FALSE
    ELSE TRUE

isDockedToBottom(p, offset, rect, containerRect, dimensions) ==
    IF rect = Absent \/ containerRect = Absent
    THEN FALSE
    ELSE IF ~hasContainer(p)
    THEN FALSE
    ELSE IF Get(rect).height > Get(containerRect).height
    THEN FALSE
    ELSE IF Round(Get(containerRect).bottom) - offsetTop(p, offset)
            >= effectiveHeight(p, Get(rect).height, dimensions)
    THEN FALSE
    ELSE TRUE

\* nativeStickyGranted without the test of the shared offset's top
nativeStickyGrantedIgnoringOffset(p, pf, offset, appliedOverflowScroll) ==
    /\ p.experimentalNative
    /\ pf.supportsPositionSticky
    /\ appliedOverflowScroll = "end"

\* the conditions of shouldUseNativeSticky's first if, negated
nativeStickyGranted(p, pf, offset, appliedOverflowScroll) ==
    /\ p.experimentalNative
    /\ pf.supportsPositionSticky
    /\ appliedOverflowScroll = "end"
    /\ offset.top = 0

\* nativeStickyWarns without the test of nativeStickyThrewOnce
nativeStickyWarnsEveryTime(pf, threwOnce, parentIsContainer) ==
    /\ ~pf.production
    /\ ~parentIsContainer

\* the condition of shouldUseNativeSticky's second if: the warning is due
nativeStickyWarns(pf, threwOnce, parentIsContainer) ==
    /\ ~pf.production
    /\ ~threwOnce
    /\ ~parentIsContainer

\* shouldUseNativeSticky: its result, whether it called console.warn, and the
\* value it leaves in nativeStickyThrewOnce
shouldUseNativeSticky(p, pf, offset, threwOnce, parentIsContainer, appliedOverflowScroll) ==
    IF ~nativeStickyGranted(p, pf, offset, appliedOverflowScroll)
    THEN [result |-> FALSE, warned |-> FALSE, threwOnce |-> threwOnce]
    ELSE IF nativeStickyWarns(pf, threwOnce, parentIsContainer)
    THEN [result |-> TRUE, warned |-> TRUE, threwOnce |-> TRUE]
    ELSE [result |-> TRUE, warned |-> FALSE, threwOnce |-> threwOnce]

---------------------------------------------------------------------------
(* Sticky: position styles *)

calcOverflowScrollFlowStickyStyles(p, offset, rectSticky, containerRect, scroll, dimensions) ==
    IF containerRect = Absent
    THEN TypeError
    ELSE
    LET containerTop == Round(Get(containerRect).top)
        stickyTop == Round(TopOr0(rectSticky))
        scrollY == Round(scroll.y)
        scrollYTurn == Round(scroll.yTurn)
        heightDiff == calcHeightDifference(rectSticky, dimensions)
        containerTopOffset == containerTop + scrollY - offset.height
        isStickyBottomReached == Round(BottomOr0(rectSticky)) <= dimensions.height
        isContainerTopReached == containerTop < offsetTop(p, offset)
        isTurnWithinHeightOffset == scrollYTurn - heightDiff <= containerTopOffset
        isTurnPointBeforeContainer == scrollYTurn < containerTopOffset
        isTurnPointAfterContainer ==
            scrollYTurn > containerTopOffset + Get(containerRect).height
        isTurnPointWithinContainer ==
            ~(isTurnPointBeforeContainer \/ isTurnPointAfterContainer)
        isStickyTopReached == stickyTop >= offsetTop(p, offset)
    IN  IF \/ (scroll.isScrollingDown /\ ~isStickyBottomReached
                  /\ ~isTurnPointWithinContainer)
           \/ (scroll.isScrollingUp /\ ~isContainerTopReached)
           \/ (scroll.isScrollingUp /\ isTurnWithinHeightOffset
                  /\ ~isTurnPointWithinContainer)
        THEN PositionStyles("absolute", 0)
        ELSE IF scroll.isScrollingDown /\ isStickyBottomReached
        THEN PositionStyles("fixed", -heightDiff)
        ELSE IF \/ (scroll.isScrollingDown /\ isTurnPointWithinContainer)
                \/ (scroll.isScrollingUp /\ ~isTurnPointBeforeContainer
                       /\ ~isStickyTopReached)
        THEN PositionStyles("absolute",
                 Abs(scrollY - stickyTop + (containerTop - scrollY)))
        ELSE PositionStyles("fixed", offsetTop(p, offset))

\* headIsFlexible on offsetTop instead of the shared offset's top
headIsFlexibleWithDefaultOffset(p, offset) ==
    offsetTop(p, offset) > 0 /\ offsetTop(p, offset) < offset.height

\* headIsFlexible of calcPositionStyles
headIsFlexible(p, offset) ==
    offset.top > 0 /\ offset.top < offset.height

\* dockedStyles without the height difference
dockedStylesAtTop(rectSticky, containerRect) ==
    PositionStyles("absolute", 0)

\* the style calcPositionStyles returns when isDockedToBottom holds
dockedStyles(rectSticky, containerRect) ==
    PositionStyles("absolute", Get(containerRect).height - HeightOr0(rectSticky))

calcPositionStyles(p, offset, rectSticky, containerRect, scroll, dimensions) ==
    IF isSticky(p, offset, rectSticky, containerRect, dimensions)
    THEN IF getOverflowScrollType(p, rectSticky, dimensions) = "flow"
         THEN calcOverflowScrollFlowStickyStyles(
                  p, offset, rectSticky, containerRect, scroll, dimensions)
         ELSE IF headIsFlexible(p, offset)
         THEN IF containerRect = Absent
              THEN TypeError
              ELSE PositionStyles("absolute",
                       Round(scroll.yTurn - scroll.y + scroll.yDTurn)
                         - Round(Get(containerRect).top) + offsetTop(p, offset))
         ELSE PositionStyles("fixed", offsetTop(p, offset))
    ELSE IF isDockedToBottom(p, offset, rectSticky, containerRect, dimensions)
    THEN dockedStyles(rectSticky, containerRect)
    ELSE PositionStyles("absolute", 0)

getStickyStyles(p, pf, offset, rect, containerRect, scroll, dimensions) ==
    LET styles == calcPositionStyles(p, offset, rect, containerRect, scroll, dimensions)
        shouldAccelerate == isNearToViewport(rect)
    IN  IF styles = TypeError
        THEN TypeError
        ELSE IF p.disableHardwareAcceleration
        THEN styles
        ELSE IF pf.supportsWillChange
        THEN [styles EXCEPT !.willChange =
                 IF shouldAccelerate THEN Def("position, top") ELSE Undefined]
        ELSE [styles EXCEPT !.transform =
                 IF shouldAccelerate THEN Def("translateZ(0)") ELSE Undefined]

---------------------------------------------------------------------------
(* Sticky: the update cycle *)

\* the object handleScrollUpdate hands to setState
nextState(st, useNativeSticky, sticky, docked, near, applied, styles) ==
    [useNativeSticky |-> useNativeSticky,
     isSticky |-> sticky,
     isDockedToBottom |-> docked,
     isNearToViewport |-> near,
     appliedOverflowScroll |-> applied,
     styles |-> IF ~shallowEqualPositionStyles(styles, st.styles)
                THEN styles ELSE st.styles]

\* handleScrollUpdate: the state it leaves, whether setState was called, the
\* warning flag and whether console.warn was called, and whether it raised
handleScrollUpdate(p, pf, offset, st, threwOnce, lay, vp) ==
    LET stickyRect == lay.stickyRect
        containerRect == lay.containerRect
        scroll == vp.scroll
        dimensions == vp.dimensions
        appliedOverflowScroll == getOverflowScrollType(p, stickyRect, dimensions)
        native == shouldUseNativeSticky(p, pf, offset, threwOnce,
                      lay.parentIsContainer, appliedOverflowScroll)
        useNativeSticky == native.result
        styles == IF useNativeSticky
                  THEN EmptyStyles
                  ELSE getStickyStyles(p, pf, offset, stickyRect, containerRect,
                                       scroll, dimensions)
        sticky == IF p.childrenIsFunction
                  THEN isSticky(p, offset, stickyRect, containerRect, dimensions)
                  ELSE FALSE
        docked == IF p.childrenIsFunction
                  THEN isDockedToBottom(p, offset, stickyRect, containerRect, dimensions)
                  ELSE FALSE
        near == isNearToViewport(stickyRect)
        unchanged ==
            /\ st.useNativeSticky = useNativeSticky
            /\ shallowEqualPositionStyles(styles, st.styles)
            /\ st.isSticky = sticky
            /\ st.isDockedToBottom = docked
            /\ st.isNearToViewport = near
            /\ appliedOverflowScroll = st.appliedOverflowScroll
    IN  IF p.disabled
        THEN [state |-> st, setState |-> FALSE, threwOnce |-> threwOnce,
              warned |-> FALSE, threw |-> FALSE]
        ELSE IF styles = TypeError
        THEN [state |-> st, setState |-> FALSE, threwOnce |-> native.threwOnce,
              warned |-> native.warned, threw |-> TRUE]
        ELSE IF unchanged
        THEN [state |-> st, setState |-> FALSE, threwOnce |-> native.threwOnce,
              warned |-> native.warned, threw |-> FALSE]
        ELSE [state |-> nextState(st, useNativeSticky, sticky, docked, near,
                                  appliedOverflowScroll, styles),
              setState |-> TRUE, threwOnce |-> native.threwOnce,
              warned |-> native.warned, threw |-> FALSE]

---------------------------------------------------------------------------
(* Bounds and input sets *)

\* the warnings counter stops counting here
MaxWarnings == 3

\* container tops of the evaluation runs range over -MaxCoord..MaxCoord quarter pixels
MaxCoord == 5

\* the Sticky regions under the provider besides the instance
MaxSiblings == 1

Siblings == 1 .. MaxSiblings

Scroll(y, yTurn, yDTurn, direction) ==
    [y |-> y, yTurn |-> yTurn, yDTurn |-> yDTurn,
     isScrollingUp |-> direction = "up", isScrollingDown |-> direction = "down"]

Layout(stickyRect, containerRect, parentIsContainer) ==
    [stickyRect |-> stickyRect, containerRect |-> containerRect,
     parentIsContainer |-> parentIsContainer]

Viewport(scroll, height) ==
    [scroll |-> scroll, dimensions |-> [height |-> height]]

\* the arguments regions hand to updateStickyOffset
OffsetTops == {Px(-1), Px(1), Px(3)}

OffsetHeights == {0, Px(2)}

DefaultProps ==
    [container |-> FALSE,
     overflowScroll |-> "end",
     defaultOffsetTop |-> 0,
     experimentalNative |-> FALSE,
     disableHardwareAcceleration |-> FALSE,
     disabled |-> FALSE,
     childrenIsFunction |-> FALSE]

\* the default props with a render function as children
RenderProps == [DefaultProps EXCEPT !.childrenIsFunction = TRUE]

\* a browser that supports will-change and position: sticky, development build,
\* a React that applies setState before the call returns (legacy root); with
\* batchedUpdates React queues the object and applies it later (React 18 root)
DefaultPlatform ==
    [supportsPositionSticky |-> TRUE,
     supportsWillChange |-> TRUE,
     production |-> FALSE,
     batchedUpdates |-> FALSE]

BatchingPlatform == [DefaultPlatform EXCEPT !.batchedUpdates = TRUE]

\* the props that decide the geometry
GeometryProps ==
    {[RenderProps EXCEPT !.container = c, !.overflowScroll = o,
                          !.defaultOffsetTop = d] :
        c \in BOOLEAN, o \in {"end", "flow"}, d \in {0, Px(1)}}

\* the props and platforms that decide native sticky and its warning
NativeConfigs ==
    {<<[RenderProps EXCEPT !.experimentalNative = TRUE, !.container = TRUE,
                            !.overflowScroll = o],
       [DefaultPlatform EXCEPT !.supportsPositionSticky = s, !.production = n]>> :
        o \in {"end", "flow"}, s \in BOOLEAN, n \in BOOLEAN}

\* the props and platforms that decide the acceleration hint and the render
\* arguments, and a disabled instance
OtherConfigs ==
    {<<[RenderProps EXCEPT !.disableHardwareAcceleration = TRUE], DefaultPlatform>>,
     <<RenderProps, [DefaultPlatform EXCEPT !.supportsWillChange = FALSE]>>,
     <<[DefaultProps EXCEPT !.container = TRUE], DefaultPlatform>>,
     <<[RenderProps EXCEPT !.disabled = TRUE], DefaultPlatform>>}

\* instances under a React that queues setState
BatchingConfigs ==
    {<<RenderProps, BatchingPlatform>>}

\* the <<props, platform>> pairs an instance of Spec is constructed with
Configs ==
    {<<p, DefaultPlatform>> : p \in GeometryProps}
      \cup NativeConfigs \cup OtherConfigs \cup BatchingConfigs

\* sibling i is a Sticky with a render function and a defaultOffsetTop of i pixels
SiblingProps(i) == [RenderProps EXCEPT !.defaultOffsetTop = Px(i)]

\* what the update cycles of Spec deliver
StickyRects ==
    {Absent, Measured(Rect(0, Px(1))), Measured(Rect(Px(-1), Px(3)))}

ContainerRects ==
    {Absent, Measured(Rect(1, Px(4))), Measured(Rect(Px(-2), Px(2)))}

Scrolls ==
    {Scroll(0, 0, 0, "down"), Scroll(Px(2), 5, 0, "up")}

Viewports == {Viewport(s, Px(2)) : s \in Scrolls}

\* the layout before anything is mounted and the viewport before any scroll
InitialLayout(p) == Layout(Absent, Absent, ~p.container)

InitialViewport == Viewport(Scroll(0, 0, 0, "none"), Px(2))

\* the snapshot and the parent comparison when the two callbacks run back to
\* back: without a container prop the container is the placeholder, and the
\* parent (undefined) equals the container (undefined) exactly while the
\* placeholder is unmounted; with a container prop the placeholder and the
\* container are two refs, and the comparison is not tied to the rects
BackToBack(p, lay) ==
    ~p.container => (lay.parentIsContainer <=> lay.containerRect = Absent)

---------------------------------------------------------------------------
(* Operations *)

\* the record of the last operation: its name, the arguments of an
\* updateStickyOffset call, and for an update cycle whether it called setState,
\* whether it called console.warn and whether it was handed the measurements of
\* the update cycle right before it
Operation(name, args, setState, warned, repeated) ==
    [name |-> name, args |-> args, setState |-> setState, warned |-> warned,
     repeated |-> repeated]

Constructed == Operation("constructor", <<>>, FALSE, FALSE, FALSE)

\* a region reports its pinned offset and height to the provider
UpdateStickyOffset ==
    \E top \in OffsetTops, height \in OffsetHeights :
        /\ stickyOffset' = updateStickyOffset(stickyOffset, top, height)
        /\ op' = Operation("updateStickyOffset", <<top, height>>, FALSE, FALSE, FALSE)
        /\ lastUpdate' = <<top, height>>
        /\ observed' = <<>>
        /\ siblingsObserved' = [i \in Siblings |-> <<>>]
        /\ UNCHANGED <<props, platform, state, pendingState, nativeStickyThrewOnce,
                       warnings, snapshot, layout, viewport, threw>>

\* recalculateLayoutBeforeUpdate: the rects of the sticky element and of the
\* container are measured and returned to ObserveViewport, which holds them
\* until it calls the handler
RecalculateLayout(stickyRect, containerRect) ==
    /\ snapshot = <<>>
    /\ snapshot' = <<[stickyRect |-> stickyRect, containerRect |-> containerRect]>>
    /\ UNCHANGED <<stickyOffset, props, platform, state, pendingState,
                   nativeStickyThrewOnce, warnings, layout, viewport, threw, op,
                   lastUpdate, observed, siblingsObserved>>

RecalculateLayoutBeforeUpdate ==
    \E r \in StickyRects, c \in ContainerRects : RecalculateLayout(r, c)

\* handleScrollUpdate, called by ObserveViewport with the snapshot it holds, the
\* scroll state and the dimensions: it reads the shared offset, the refs and
\* this.state as they are now; the object it hands to setState is applied
\* before the call returns, or queued where React batches
Cycle(lay, vp) ==
    \E r \in {handleScrollUpdate(props, platform, contextStickyOffset(stickyOffset),
                                 state, nativeStickyThrewOnce, lay, vp)} :
        /\ snapshot' = <<>>
        /\ layout' = lay
        /\ viewport' = vp
        /\ state' = IF platform.batchedUpdates THEN state ELSE r.state
        /\ pendingState' = IF platform.batchedUpdates /\ r.setState
                           THEN <<r.state>>
                           ELSE pendingState
        /\ nativeStickyThrewOnce' = r.threwOnce
        /\ warnings' = IF r.warned THEN Min(warnings + 1, MaxWarnings) ELSE warnings
        /\ threw' = r.threw
        /\ op' = Operation("handleScrollUpdate", <<>>, r.setState, r.warned,
                           op.name = "handleScrollUpdate" /\ lay = layout
                             /\ vp = viewport)
        /\ observed' = IF props.disabled
                       THEN observed
                       ELSE <<Observation(props, contextStickyOffset(stickyOffset))>>
        /\ UNCHANGED <<stickyOffset, props, platform, lastUpdate, siblingsObserved>>

\* the parent comparison is made from the refs as the handler finds them
HandleScrollUpdate ==
    /\ snapshot # <<>>
    /\ \E b \in BOOLEAN, vp \in Viewports :
          Cycle(Layout(snapshot[1].stickyRect, snapshot[1].containerRect, b), vp)

\* React applies the queued state and renders; of the operation before it the
\* name and whether it called setState are kept
Flush ==
    /\ pendingState # <<>>
    /\ state' = pendingState[1]
    /\ pendingState' = <<>>
    /\ op' = Operation("flush", <<op.name>>, op.setState, FALSE, FALSE)
    /\ UNCHANGED <<stickyOffset, props, platform, nativeStickyThrewOnce, warnings,
                   snapshot, layout, viewport, threw, lastUpdate, observed,
                   siblingsObserved>>

\* an update cycle has run, React has applied the state it asked for, if any,
\* and nothing has run since: this.state is what the cycle derived
CycleSettled ==
    \/ op.name = "handleScrollUpdate" /\ pendingState = <<>>
    \/ op.name = "flush" /\ op.args = <<"handleScrollUpdate">> /\ op.setState

\* the instance is unmounted and constructed again with the same props
Remount ==
    /\ state' = InitialState
    /\ pendingState' = <<>>
    /\ nativeStickyThrewOnce' = FALSE
    /\ warnings' = 0
    /\ threw' = FALSE
    /\ op' = Constructed
    /\ snapshot' = <<>>
    /\ observed' = <<>>
    /\ UNCHANGED <<stickyOffset, props, platform, layout, viewport, lastUpdate,
                   siblingsObserved>>

Init ==
    /\ stickyOffset = InitialStickyOffset
    /\ \E c \in Configs : props = c[1] /\ platform = c[2]
    /\ state = InitialState
    /\ pendingState = <<>>
    /\ snapshot = <<>>
    /\ nativeStickyThrewOnce = FALSE
    /\ warnings = 0
    /\ layout = InitialLayout(props)
    /\ viewport = InitialViewport
    /\ threw = FALSE
    /\ op = Constructed
    /\ lastUpdate = <<>>
    /\ observed = <<>>
    /\ siblingsObserved = [i \in Siblings |-> <<>>]

Next ==
    \/ UpdateStickyOffset
    \/ RecalculateLayoutBeforeUpdate
    \/ HandleScrollUpdate
    \/ Flush
    \/ Remount

Spec == Init /\ [][Next]_vars

---------------------------------------------------------------------------
(* A provider with several Sticky regions: the instance and its siblings run
   their update cycles and report offsets in any order *)

GroupProps ==
    {[RenderProps EXCEPT !.defaultOffsetTop = d] : d \in {0, Px(1)}}

GroupConfigs ==
    {<<p, DefaultPlatform>> : p \in GroupProps} \cup BatchingConfigs

GroupInit ==
    /\ stickyOffset = InitialStickyOffset
    /\ \E c \in GroupConfigs : props = c[1] /\ platform = c[2]
    /\ state = InitialState
    /\ pendingState = <<>>
    /\ snapshot = <<>>
    /\ nativeStickyThrewOnce = FALSE
    /\ warnings = 0
    /\ layout = InitialLayout(props)
    /\ viewport = InitialViewport
    /\ threw = FALSE
    /\ op = Constructed
    /\ lastUpdate = <<>>
    /\ observed = <<>>
    /\ siblingsObserved = [i \in Siblings |-> <<>>]

\* the rects the snapshots of the instance find under the provider
GroupStickyRects == {Absent, Measured(Rect(0, Px(1)))}

GroupContainerRects == {Absent, Measured(Rect(Px(-2), Px(2)))}

GroupSnapshot ==
    \E r \in GroupStickyRects, c \in GroupContainerRects : RecalculateLayout(r, c)

\* an update cycle of a sibling: its own state lives in the sibling, of the
\* cycle the shared offset it read and the offsetTop it computed are kept
SiblingHandleScrollUpdate ==
    \E i \in Siblings :
        /\ siblingsObserved' =
               [siblingsObserved EXCEPT
                   ![i] = <<Observation(SiblingProps(i),
                                        contextStickyOffset(stickyOffset))>>]
        /\ op' = Operation("siblingHandleScrollUpdate", <<i>>, FALSE, FALSE, FALSE)
        /\ UNCHANGED <<stickyOffset, props, platform, state, pendingState,
                       nativeStickyThrewOnce, warnings, snapshot, layout, viewport,
                       threw, lastUpdate, observed>>

GroupNext ==
    \/ UpdateStickyOffset
    \/ GroupSnapshot
    \/ HandleScrollUpdate
    \/ Flush
    \/ SiblingHandleScrollUpdate

GroupSpec == GroupInit /\ [][GroupNext]_vars

---------------------------------------------------------------------------
(* Evaluation of single update cycles: the measurements, the configuration and
   the shared offset are drawn when the instance is constructed, and the update
   cycles deliver these measurements *)

EvalProps ==
    {[RenderProps EXCEPT !.container = c, !.overflowScroll = o,
                         !.defaultOffsetTop = d] :
        c \in BOOLEAN, o \in {"end", "flow"}, d \in {0, Px(1)}}
      \cup {[DefaultProps EXCEPT !.container = c] : c \in BOOLEAN}

\* the <<props, platform>> pairs of the evaluation runs
EvalConfigs ==
    {<<p, DefaultPlatform>> : p \in EvalProps}
      \cup {<<[RenderProps EXCEPT !.container = c], BatchingPlatform>> : c \in BOOLEAN}

\* the offsets updateStickyOffset can have left in the provider
EvalOffsets ==
    {InitialStickyOffset} \cup
    {updateStickyOffset(InitialStickyOffset, t, h) :
        t \in {0, Px(1), Px(30)}, h \in {Px(2), Px(20)}}

\* the updateStickyOffset calls that leave the provider with offset: none, or
\* a most recent call with these arguments
UpdatesLeaving(offset) ==
    {u \in {<<>>} : offset = InitialStickyOffset} \cup
    {u \in {0, Px(1), Px(2), Px(30)} \X {Px(2), Px(20)} :
        updateStickyOffset(InitialStickyOffset, u[1], u[2]) = offset}

EvalContainerRects ==
    {Absent}
      \cup {Measured(Rect(t, h)) :
              t \in -MaxCoord .. MaxCoord, h \in {0, Px(1), 10, Px(4)}}
      \cup {Measured(Rect(Px(10), Px(490))), Measured(Rect(Px(-50), Px(90)))}

EvalStickyRects ==
    {Absent}
      \cup {Measured(Rect(t, h)) : t \in {0, -3}, h \in {0, Px(1), 9, 10, 13}}
      \cup {Measured(Rect(0, Px(50))), Measured(Rect(0, Px(60)))}

EvalScrolls ==
    {Scroll(0, 0, 0, "down"), Scroll(Px(2), 5, 0, "up"), Scroll(Px(2), 5, 0, "down")}

EvalDimensions == {Px(2), Px(3)}

EvalLayouts ==
    {Layout(r, c, b) : r \in EvalStickyRects, c \in EvalContainerRects, b \in BOOLEAN}

EvalInit ==
    /\ stickyOffset \in EvalOffsets
    /\ \E c \in EvalConfigs : props = c[1] /\ platform = c[2]
    /\ state = InitialState
    /\ pendingState = <<>>
    /\ snapshot = <<>>
    /\ nativeStickyThrewOnce = FALSE
    /\ warnings = 0
    /\ layout \in {lay \in EvalLayouts : BackToBack(props, lay)}
    /\ viewport \in {Viewport(s, h) : s \in EvalScrolls, h \in EvalDimensions}
    /\ threw = FALSE
    /\ op = Constructed
    /\ lastUpdate \in UpdatesLeaving(stickyOffset)
    /\ observed = <<>>
    /\ siblingsObserved = [i \in Siblings |-> <<>>]

\* the snapshot finds the rects as they were
EvalSnapshot == RecalculateLayout(layout.stickyRect, layout.containerRect)

\* the handler finds the refs and the viewport as they were
Evaluate ==
    /\ snapshot # <<>>
    /\ Cycle(Layout(snapshot[1].stickyRect, snapshot[1].containerRect,
                    layout.parentIsContainer), viewport)

EvalNext ==
    \/ EvalSnapshot
    \/ Evaluate
    \/ Flush

EvalSpec == EvalInit /\ [][EvalNext]_vars

---------------------------------------------------------------------------
(* Evaluation of single update cycles under the flow policy: elements taller
   than the viewport, containers around them, and scroll states whose turn
   point lies before, within and after the container *)

FlowProps ==
    {[RenderProps EXCEPT !.container = c, !.overflowScroll = "flow",
                         !.defaultOffsetTop = d] :
        c \in BOOLEAN, d \in {0, Px(1)}}
      \cup {[DefaultProps EXCEPT !.container = TRUE, !.overflowScroll = "flow"]}

FlowConfigs ==
    {<<p, DefaultPlatform>> : p \in FlowProps}
      \cup {<<[RenderProps EXCEPT !.container = TRUE, !.overflowScroll = "flow"],
               BatchingPlatform>>}

FlowOffsets ==
    {InitialStickyOffset} \cup
    {updateStickyOffset(InitialStickyOffset, t, Px(2)) : t \in {Px(1), Px(2)}}

FlowStickyRects ==
    {Measured(Rect(t, h)) : t \in {Px(-3), -3, 0, Px(1)}, h \in {10, Px(3), Px(5)}}

FlowContainerRects ==
    {Measured(Rect(t, h)) : t \in {Px(-6), Px(-2), -1, 1, Px(1)},
                           h \in {Px(4), Px(10)}}

FlowScrolls ==
    {Scroll(y, yTurn, 0, d) : y \in {0, 5, Px(6)}, yTurn \in {0, Px(2), 27, Px(12)},
                              d \in {"down", "up", "none"}}

FlowInit ==
    /\ stickyOffset \in FlowOffsets
    /\ \E c \in FlowConfigs : props = c[1] /\ platform = c[2]
    /\ state = InitialState
    /\ pendingState = <<>>
    /\ snapshot = <<>>
    /\ nativeStickyThrewOnce = FALSE
    /\ warnings = 0
    /\ layout \in {lay \in {Layout(r, c, b) : r \in FlowStickyRects,
                                               c \in FlowContainerRects \cup {Absent},
                                               b \in BOOLEAN} :
                       BackToBack(props, lay)}
    /\ viewport \in {Viewport(s, h) : s \in FlowScrolls, h \in EvalDimensions}
    /\ threw = FALSE
    /\ op = Constructed
    /\ lastUpdate \in UpdatesLeaving(stickyOffset)
    /\ observed = <<>>
    /\ siblingsObserved = [i \in Siblings |-> <<>>]

\* the snapshot of the measurements drawn for the flow policy
FlowSnapshot == RecalculateLayout(layout.stickyRect, layout.containerRect)

\* the handler on that snapshot
EvaluateFlow ==
    /\ snapshot # <<>>
    /\ Cycle(Layout(snapshot[1].stickyRect, snapshot[1].containerRect,
                    layout.parentIsContainer), viewport)

FlowNext ==
    \/ FlowSnapshot
    \/ EvaluateFlow
    \/ Flush

FlowSpec == FlowInit /\ [][FlowNext]_vars

---------------------------------------------------------------------------
(* Claims *)

\* C1: the shared offset always has top <= height, and right after
\* updateStickyOffset(top, height) its height is height and its top is the
\* smaller of top and height; update(30, 20) gives {20, 20}, update(5, 20)
\* gives {5, 20}.
C1_OffsetClamped ==
    /\ stickyOffset.top <= stickyOffset.height
    /\ op.name = "updateStickyOffset" =>
          /\ stickyOffset.height = op.args[2]
          /\ op.args[1] <= op.args[2] => stickyOffset.top = op.args[1]
          /\ op.args[1] > op.args[2] => stickyOffset.top = op.args[2]
    /\ updateStickyOffset(stickyOffset, Px(30), Px(20))
          = [top |-> Px(20), height |-> Px(20)]
    /\ updateStickyOffset(stickyOffset, Px(5), Px(20))
          = [top |-> Px(5), height |-> Px(20)]

\* an update whose top exceeded its height was clamped to the height
C1_Witness ==
    /\ op.name = "updateStickyOffset"
    /\ op.args[1] > op.args[2]
    /\ stickyOffset.top = op.args[2]
    /\ stickyOffset.height = op.args[2]

\* C2 as stated: a measured container rect with top > offsetTop is never sticky,
\* neither for the predicate nor in the state an update cycle stores.
C2_Original ==
    LET c == layout.containerRect
    IN  (CycleSettled /\ c # Absent
           /\ Get(c).top > offsetTop(props, stickyOffset))
        => /\ ~isSticky(props, stickyOffset, layout.stickyRect, c, viewport.dimensions)
           /\ ~state.isSticky

\* C2 amended: a measured container rect whose top, rounded to the nearest
\* pixel, is > offsetTop is never sticky, with or without a container and under
\* either overflow policy.
C2_RoundedTopAboveOffsetNotSticky ==
    LET c == layout.containerRect
    IN  (CycleSettled /\ c # Absent
           /\ Round(Get(c).top) > offsetTop(props, stickyOffset))
        => /\ ~isSticky(props, stickyOffset, layout.stickyRect, c, viewport.dimensions)
           /\ ~state.isSticky

\* a cycle with a container whose rounded top is above the offset although
\* its bottom leaves room for the element
C2_Witness ==
    LET c == layout.containerRect
    IN  /\ op.name = "handleScrollUpdate"
        /\ props.container
        /\ props.overflowScroll = "flow"
        /\ c # Absent
        /\ Round(Get(c).top) > offsetTop(props, stickyOffset)
        /\ Round(Get(c).bottom) - offsetTop(props, stickyOffset)
              >= HeightOr0(layout.stickyRect)
        /\ ~state.isSticky

\* C3: isSticky is the reference predicate: without a container
\* round(containerRect.top) <= offsetTop; with one, also
\* round(containerRect.bottom) - offsetTop >= effectiveHeight, which is
\* min(stickyRect.height, dimensions.height) under flow and stickyRect.height
\* under end (an unmeasured rect counts as zero).  A cycle that completes
\* stores that value when the children are a render function.
C3_IsStickyIsReference ==
    LET c == layout.containerRect
        r == layout.stickyRect
        oT == stickyOffset.top + props.defaultOffsetTop
        cTop == IF c = Absent THEN 0 ELSE Get(c).top
        cBottom == IF c = Absent THEN 0 ELSE Get(c).bottom
        rHeight == IF r = Absent THEN 0 ELSE Get(r).height
        effHeight == IF props.overflowScroll = "flow"
                     THEN (IF rHeight <= viewport.dimensions.height
                           THEN rHeight ELSE viewport.dimensions.height)
                     ELSE rHeight
        reference == IF props.container
                     THEN Round(cTop) <= oT /\ Round(cBottom) - oT >= effHeight
                     ELSE Round(cTop) <= oT
    IN  /\ isSticky(props, stickyOffset, r, c, viewport.dimensions) <=> reference
        /\ (CycleSettled /\ ~threw) => (state.isSticky <=> (props.childrenIsFunction /\ reference))

\* the pin-with-container example: container {top: 10, bottom: 500, height: 490},
\* sticky height 50, offsetTop 20, pinned fixed at 20
C3_Witness ==
    /\ op.name = "handleScrollUpdate"
    /\ props.container
    /\ layout.containerRect = Measured(Rect(Px(10), Px(490)))
    /\ HeightOr0(layout.stickyRect) = Px(50)
    /\ offsetTop(props, stickyOffset) = Px(20)
    /\ state.isSticky
    /\ state.styles.position = Def("fixed")
    /\ state.styles.top = Def(Px(20))

\* C4 as stated: appliedOverflowScroll is flow exactly when the policy is flow
\* and stickyRect.height > dimensions.height.
C4_Original ==
    (CycleSettled /\ ~threw) =>
        (state.appliedOverflowScroll = "flow"
            <=> (props.overflowScroll = "flow"
                   /\ HeightOr0(layout.stickyRect) > viewport.dimensions.height))

\* C4 amended: appliedOverflowScroll is flow exactly when the policy is flow and
\* stickyRect.height rounded to the nearest pixel is > dimensions.height; in
\* every other case (policy end, not taller, unmeasured) it is end.
C4_FlowIffRoundedHeightExceeds ==
    LET r == layout.stickyRect
        taller == Round(IF r = Absent THEN 0 ELSE Get(r).height)
                     > viewport.dimensions.height
        applied == getOverflowScrollType(props, r, viewport.dimensions)
    IN  /\ applied = "flow" <=> (props.overflowScroll = "flow" /\ taller)
        /\ applied # "flow" => applied = "end"
        /\ (CycleSettled /\ ~threw) =>
              state.appliedOverflowScroll =
                 (IF props.overflowScroll = "flow" /\ taller THEN "flow" ELSE "end")

\* under policy flow, an element a fraction of a pixel taller than the viewport
\* was given end
C4_Witness ==
    /\ op.name = "handleScrollUpdate"
    /\ ~threw
    /\ props.overflowScroll = "flow"
    /\ HeightOr0(layout.stickyRect) > viewport.dimensions.height
    /\ Round(HeightOr0(layout.stickyRect)) = viewport.dimensions.height
    /\ state.appliedOverflowScroll = "end"

\* C5: shouldUseNativeSticky returns true exactly when experimentalNative is
\* set, the platform supports position: sticky, the applied overflow mode is end
\* and the shared offset's top is 0, whatever the warning flag and the
\* placeholder's parent are; a cycle that completes stores that value.
C5_NativeIffFourConditions ==
    LET applied == getOverflowScrollType(props, layout.stickyRect, viewport.dimensions)
        granted(a) == /\ props.experimentalNative
                      /\ platform.supportsPositionSticky
                      /\ a = "end"
                      /\ stickyOffset.top = 0
    IN  /\ \A a \in {"end", "flow"}, threwOnce \in BOOLEAN, parentIsContainer \in BOOLEAN :
              shouldUseNativeSticky(props, platform, stickyOffset, threwOnce,
                                    parentIsContainer, a).result <=> granted(a)
        /\ (CycleSettled /\ ~props.disabled /\ ~threw) =>
              (state.useNativeSticky <=> granted(applied))

\* native sticky granted to a placeholder whose parent is not the container,
\* in a cycle after the one that warned
C5_Witness ==
    /\ op.name = "handleScrollUpdate"
    /\ state.useNativeSticky
    /\ ~layout.parentIsContainer
    /\ nativeStickyThrewOnce
    /\ ~op.warned
    /\ stickyOffset.top = 0

\* C6: between two constructions of the instance console.warn is called at most
\* once, and once it was called the flag is set.
C6_WarnsAtMostOnce ==
    /\ warnings <= 1
    /\ warnings = 1 <=> nativeStickyThrewOnce

\* a cycle that found the parent not to be the container again, after the
\* warning, and did not warn
C6_Witness ==
    /\ op.name = "handleScrollUpdate"
    /\ warnings = 1
    /\ ~op.warned
    /\ ~platform.production
    /\ ~layout.parentIsContainer
    /\ state.useNativeSticky

\* C7: a cycle that is not sticky styles the element absolute with
\* top = containerRect.height - stickyRect.height when docked to the bottom (both
\* rects measured, a container configured, the sticky rect not higher than the
\* container, round(containerRect.bottom) - offsetTop < effectiveHeight), and
\* absolute with top = 0 otherwise.
C7_NonStickyStyles ==
    LET c == layout.containerRect
        r == layout.stickyRect
        oT == stickyOffset.top + props.defaultOffsetTop
        effHeight == IF props.overflowScroll = "flow"
                     THEN Min(Get(r).height, viewport.dimensions.height)
                     ELSE Get(r).height
        docked == /\ r # Absent
                  /\ c # Absent
                  /\ props.container
                  /\ Get(r).height <= Get(c).height
                  /\ Round(Get(c).bottom) - oT < effHeight
    IN  (CycleSettled
           /\ ~isSticky(props, stickyOffset, r, c, viewport.dimensions))
        => /\ ~threw
           /\ state.isDockedToBottom = (props.childrenIsFunction /\ docked)
           /\ state.styles.position = Def("absolute")
           /\ state.styles.top =
                 (IF docked THEN Def(Get(c).height - Get(r).height) ELSE Def(0))

\* the docking example: container {top: -50, bottom: 40, height: 90}, sticky
\* height 60, offsetTop 0, docked at top 30
C7_Witness ==
    /\ op.name = "handleScrollUpdate"
    /\ layout.containerRect = Measured(Rect(Px(-50), Px(90)))
    /\ HeightOr0(layout.stickyRect) = Px(60)
    /\ offsetTop(props, stickyOffset) = 0
    /\ ~state.isSticky
    /\ state.isDockedToBottom
    /\ state.styles.position = Def("absolute")
    /\ state.styles.top = Def(Px(30))

\* C8 as stated: a sticky cycle without flow stores absolute with
\* top = (yTurn - y + yDTurn) - round(containerRect.top) + offsetTop when
\* 0 < offsetTop < groupOffset.height, and fixed with top = offsetTop otherwise.
C8_Original ==
    LET c == layout.containerRect
        r == layout.stickyRect
        s == viewport.scroll
        oT == offsetTop(props, stickyOffset)
    IN  (CycleSettled /\ ~threw
           /\ isSticky(props, stickyOffset, r, c, viewport.dimensions)
           /\ getOverflowScrollType(props, r, viewport.dimensions) # "flow")
        => IF 0 < oT /\ oT < stickyOffset.height
           THEN /\ state.styles.position = Def("absolute")
                /\ state.styles.top =
                      Def((s.yTurn - s.y + s.yDTurn) - Round(TopOr0(c)) + oT)
           ELSE /\ state.styles.position = Def("fixed")
                /\ state.styles.top = Def(oT)

\* C8 amended: for every sticky cycle without flow, when 0 < groupOffset.top <
\* groupOffset.height (the shared offset's top, without defaultOffsetTop) a
\* cycle whose container rect is unmeasured raises the TypeError of C10 and
\* every other cycle stores absolute with top = round(yTurn - y + yDTurn)
\* - round(containerRect.top) + offsetTop; otherwise the cycle does not raise
\* and stores fixed with top = offsetTop.
C8_StickyStyles ==
    LET c == layout.containerRect
        r == layout.stickyRect
        s == viewport.scroll
        oT == stickyOffset.top + props.defaultOffsetTop
    IN  (CycleSettled
           /\ isSticky(props, stickyOffset, r, c, viewport.dimensions)
           /\ getOverflowScrollType(props, r, viewport.dimensions) # "flow")
        => IF 0 < stickyOffset.top /\ stickyOffset.top < stickyOffset.height
           THEN IF c = Absent
                THEN threw
                ELSE /\ ~threw
                     /\ state.isSticky = props.childrenIsFunction
                     /\ state.styles.position = Def("absolute")
                     /\ state.styles.top =
                           Def(Round(s.yTurn - s.y + s.yDTurn)
                                 - Round(Get(c).top) + oT)
           ELSE /\ ~threw
                /\ state.isSticky = props.childrenIsFunction
                /\ state.styles.position = Def("fixed")
                /\ state.styles.top = Def(oT)

\* a flexible head with a defaultOffsetTop and a fractional turn distance
C8_Witness ==
    /\ op.name = "handleScrollUpdate"
    /\ ~threw
    /\ state.isSticky
    /\ state.appliedOverflowScroll = "end"
    /\ 0 < stickyOffset.top /\ stickyOffset.top < stickyOffset.height
    /\ props.defaultOffsetTop # 0
    /\ Round(viewport.scroll.yTurn - viewport.scroll.y + viewport.scroll.yDTurn)
          # viewport.scroll.yTurn - viewport.scroll.y + viewport.scroll.yDTurn
    /\ state.styles.position = Def("absolute")

\* C9: an update cycle handed the measurements of the update cycle right before
\* it, with the props and the shared offset unchanged and nothing but the
\* snapshot of the second cycle run in between, does not call setState, from
\* every reachable state.
C9_RepeatedCycleIsSuppressed ==
    (op.name = "handleScrollUpdate" /\ op.repeated) => ~op.setState

\* C10: an update cycle handed an unmeasured sticky rect or an unmeasured
\* container rect does not raise.
C10_UnmeasuredNeverRaises ==
    (op.name = "handleScrollUpdate"
       /\ (layout.stickyRect = Absent \/ layout.containerRect = Absent))
    => ~threw

\* C11: after every update cycle of an instance that is not disabled, the
\* stored isNearToViewport flag equals (rect.top - 700 < 0 and rect.bottom +
\* 700 > 0) for the sticky rect of that cycle, an unmeasured rect counting as
\* top 0 and bottom 0, and the priority handed to the scheduler is highest
\* exactly when the flag is true and low otherwise.
C11_NearFlagFollowsCycle ==
    (CycleSettled /\ ~props.disabled)
    => /\ state.isNearToViewport
           = (TopOr0(layout.stickyRect) - Px(700) < 0
                /\ BottomOr0(layout.stickyRect) + Px(700) > 0)
       /\ priority(state) = IF state.isNearToViewport THEN "highest" ELSE "low"

\* C12 as stated, second branch: scrolling down with the sticky bottom reached
\* (the first branch cannot match) the style is fixed with top = -heightDiff,
\* heightDiff = max(0, stickyRect.height - dimensions.height) on the unrounded
\* height of the sticky rect.
C12_Original ==
    (/\ CycleSettled
     /\ state.isSticky
     /\ state.appliedOverflowScroll = "flow"
     /\ viewport.scroll.isScrollingDown
     /\ Round(BottomOr0(layout.stickyRect)) <= viewport.dimensions.height)
    => /\ state.styles.position = Def("fixed")
       /\ state.styles.top
            = Def(-Max(0, HeightOr0(layout.stickyRect) - viewport.dimensions.height))

\* C12: for every update cycle whose element is sticky and whose applied policy
\* is flow, a cycle whose container rect is unmeasured raises the TypeError of
\* C10, and every other cycle produces a style that follows the decision
\* order, first match wins, on whole-pixel values (containerTop, stickyTop,
\* stickyBottom, scrollY, scrollYTurn and the sticky height are rounded):
\* (1) absolute at 0 if (down, bottom not reached, turn point not within the
\* container) or (up, container top not reached) or (up, turn point within
\* the height-difference band, turn point not within the container); (2) else
\* fixed at -heightDiff if (down, bottom reached), heightDiff = max(0,
\* round(stickyRect.height) - dimensions.height); (3) else absolute at
\* |scrollY - stickyTop + (containerTop - scrollY)| if (down, turn point within
\* the container) or (up, turn point not before the container, stickyTop <
\* offsetTop); (4) else fixed at offsetTop.
C12_FlowDecisionOrder ==
    (/\ CycleSettled
     /\ isSticky(props, stickyOffset, layout.stickyRect, layout.containerRect,
                 viewport.dimensions)
     /\ props.overflowScroll = "flow"
     /\ Round(HeightOr0(layout.stickyRect)) > viewport.dimensions.height)
    => LET down == viewport.scroll.isScrollingDown
           up == viewport.scroll.isScrollingUp
           containerTop == Round(TopOr0(layout.containerRect))
           stickyTop == Round(TopOr0(layout.stickyRect))
           scrollY == Round(viewport.scroll.y)
           turn == Round(viewport.scroll.yTurn)
           pin == stickyOffset.top + props.defaultOffsetTop
           heightDiff == Max(0, Round(HeightOr0(layout.stickyRect))
                                  - viewport.dimensions.height)
           containerStart == containerTop + scrollY - stickyOffset.height
           bottomReached ==
               Round(BottomOr0(layout.stickyRect)) <= viewport.dimensions.height
           containerTopReached == containerTop < pin
           turnInBand == turn - heightDiff <= containerStart
           turnBefore == turn < containerStart
           turnWithin ==
               /\ turn >= containerStart
               /\ turn <= containerStart + HeightOr0(layout.containerRect)
           expected ==
               CASE (down /\ ~bottomReached /\ ~turnWithin)
                      \/ (up /\ ~containerTopReached)
                      \/ (up /\ turnInBand /\ ~turnWithin)
                        -> <<"absolute", 0>>
                 [] OTHER ->
               CASE down /\ bottomReached
                        -> <<"fixed", -heightDiff>>
                 [] OTHER ->
               CASE (down /\ turnWithin) \/ (up /\ ~turnBefore /\ stickyTop < pin)
                        -> <<"absolute", Abs(scrollY - stickyTop + (containerTop - scrollY))>>
                 [] OTHER -> <<"fixed", pin>>
       IN  IF layout.containerRect = Absent
           THEN threw
           ELSE /\ ~threw
                /\ state.isSticky = props.childrenIsFunction
                /\ state.appliedOverflowScroll = "flow"
                /\ state.styles.position = Def(expected[1])
                /\ state.styles.top = Def(expected[2])

\* scrolling down with the bottom of an element of fractional height reached
\* while the turn point lies within the container: the second branch wins over
\* the third and pins at minus the rounded height difference
C12_Witness ==
    /\ op.name = "handleScrollUpdate"
    /\ state.isSticky
    /\ state.appliedOverflowScroll = "flow"
    /\ viewport.scroll.isScrollingDown
    /\ Round(BottomOr0(layout.stickyRect)) <= viewport.dimensions.height
    /\ Round(viewport.scroll.yTurn)
          >= Round(TopOr0(layout.containerRect)) + Round(viewport.scroll.y)
               - stickyOffset.height
    /\ Round(viewport.scroll.yTurn)
          <= Round(TopOr0(layout.containerRect)) + Round(viewport.scroll.y)
               - stickyOffset.height + HeightOr0(layout.containerRect)
    /\ Round(HeightOr0(layout.stickyRect)) # HeightOr0(layout.stickyRect)
    /\ state.styles.position = Def("fixed")
    /\ state.styles.top = Def(-Max(0, Round(HeightOr0(layout.stickyRect))
                                       - viewport.dimensions.height))

\* C13: under one provider, for any interleaving of updateStickyOffset calls
\* and update cycles of its regions, every update cycle run since the most
\* recent call computed offsetTop as min(top, height) of that call's arguments
\* (0 before the first call) plus the region's defaultOffsetTop, a pinned
\* instance is styled at that offsetTop, and all regions read the same shared
\* offset.
C13_CyclesReadLatestOffset ==
    LET latestTop == IF lastUpdate = <<>>
                     THEN 0
                     ELSE IF lastUpdate[1] <= lastUpdate[2]
                     THEN lastUpdate[1]
                     ELSE lastUpdate[2]
        observations ==
            {observed[k] : k \in DOMAIN observed}
              \cup UNION {{siblingsObserved[i][k] : k \in DOMAIN siblingsObserved[i]} :
                             i \in Siblings}
    IN  /\ (op.name = "handleScrollUpdate" /\ ~props.disabled) => observed # <<>>
        /\ op.name = "siblingHandleScrollUpdate" => siblingsObserved[op.args[1]] # <<>>
        /\ observed # <<>>
              => observed[1].offsetTop = latestTop + props.defaultOffsetTop
        /\ \A i \in Siblings :
              siblingsObserved[i] # <<>>
                => siblingsObserved[i][1].offsetTop = latestTop + Px(i)
        /\ \A a \in observations, b \in observations : a.stickyOffset = b.stickyOffset
        /\ (/\ CycleSettled
            /\ ~threw
            /\ state.isSticky
            /\ state.styles.position = Def("fixed"))
              => state.styles.top = Def(latestTop + props.defaultOffsetTop)

\* after a call whose top was clamped to the height, the instance (with a
\* defaultOffsetTop of its own) has pinned itself and a sibling has run its
\* update cycle after it
C13_Witness ==
    /\ op.name = "siblingHandleScrollUpdate"
    /\ lastUpdate # <<>>
    /\ lastUpdate[1] > lastUpdate[2]
    /\ lastUpdate[2] > 0
    /\ observed # <<>>
    /\ siblingsObserved[op.args[1]] # <<>>
    /\ props.defaultOffsetTop # 0
    /\ state.isSticky
    /\ state.styles.position = Def("fixed")

\* C14: isSticky and isDockedToBottom are never both true for the rects,
\* configuration, shared offset and viewport height of one update cycle, and
\* the stored isSticky and isDockedToBottom flags are never both true.
C14_StickyAndDockedExclusive ==
    /\ ~(/\ isSticky(props, stickyOffset, layout.stickyRect, layout.containerRect,
                      viewport.dimensions)
         /\ isDockedToBottom(props, stickyOffset, layout.stickyRect,
                              layout.containerRect, viewport.dimensions))
    /\ ~(state.isSticky /\ state.isDockedToBottom)

\* a cycle stored docked for a container whose top has passed offsetTop, so
\* that the room left in the container alone decides between the two flags
C14_Witness ==
    /\ op.name = "handleScrollUpdate"
    /\ op.setState
    /\ props.container
    /\ Round(TopOr0(layout.containerRect)) <= stickyOffset.top + props.defaultOffsetTop
    /\ state.isDockedToBottom
    /\ ~state.isSticky

====
